---- MODULE Spec2Model ----
(***************************************************************************)
(* Contact-form backend (src/app.py): field cleaning, phone validation,    *)
(* and the POST /contact handler with its two sinks (the local submissions *)
(* log and the remote Google Sheets webhook) and the failures log.         *)
(*                                                                         *)
(* Text values are sequences of one-character strings; "TAB" and "NL"      *)
(* stand for the tab and newline characters.  File appends are modelled as *)
(* atomic (one buffered write of a short line to a file opened in append   *)
(* mode) and the local disk is assumed not to fail.  The field `req` of a  *)
(* log line or of a received POST is a history field that records which    *)
(* request produced it; the program does not store it.                     *)
(***************************************************************************)
EXTENDS Integers, Sequences, FiniteSets, TLC

\* ------------------------------------------------------------------ bounds
MaxLen == 4        \* longest raw text given to clean_text on its own
MaxN == 3          \* largest max_len given to clean_text on its own
MaxAffix == 2      \* longest free prefix / suffix of a phone candidate
NumReqs == 2       \* concurrent POST /contact requests

\* ------------------------------------------------------- program constants
NAME_MAX == 120
PHONE_MAX == 40
SERVICE_MAX == 80
MESSAGE_MAX == 1000
PHONE_MIN_TAIL == 7
HTTP_ERROR_FLOOR == 400

\* --------------------------------------------------------------- characters
IsSpace(c) == c \in {" ", "TAB", "NL"}
IsDigit(c) == c \in {"0", "1", "7", "9"}
\* the character class [\d\s()\-]
IsPhoneClass(c) == IsDigit(c) \/ IsSpace(c) \/ c \in {"(", ")", "-"}

Repeat(c, n) == [i \in 1..n |-> c]

RECURSIVE LStrip(_)
LStrip(s) == IF s # <<>> /\ IsSpace(Head(s)) THEN LStrip(Tail(s)) ELSE s

RECURSIVE RStrip(_)
RStrip(s) ==
  IF s # <<>> /\ IsSpace(s[Len(s)]) THEN RStrip(SubSeq(s, 1, Len(s) - 1)) ELSE s

\* str.strip()
Strip(s) == RStrip(LStrip(s))

\* _clean_text(value, max_len)
clean_text(value, max_len) ==
  LET v == Strip(value)
  IN  IF Len(v) > max_len THEN SubSeq(v, 1, max_len) ELSE v

\* the pattern of _is_valid_phone without its final `$`
is_valid_phone_prefix(value) ==
  LET n == Len(value)
      starts == {1} \cup (IF n >= 1 /\ value[1] = "+" THEN {2} ELSE {})
  IN  \E d \in starts :
        /\ d <= n
        /\ IsDigit(value[d])
        /\ \E k \in PHONE_MIN_TAIL..(n - d) :
             \A j \in 1..k : IsPhoneClass(value[d + j])

\* _is_valid_phone(value): re.match of ^\+?\d[\d\s()\-]{7,}$ .  `starts` are
\* the positions the engine tries for \d (after the optional '+', or at 1),
\* k is the length taken by the repetition, and `$` holds at the end of the
\* string or just before a final newline.
is_valid_phone(value) ==
  LET n == Len(value)
      starts == {1} \cup (IF n >= 1 /\ value[1] = "+" THEN {2} ELSE {})
      AtEnd(p) == p = n + 1 \/ (p = n /\ value[n] = "NL")
  IN  \E d \in starts :
        /\ d <= n
        /\ IsDigit(value[d])
        /\ \E k \in PHONE_MIN_TAIL..(n - d) :
             /\ \A j \in 1..k : IsPhoneClass(value[d + j])
             /\ AtEnd(d + k + 1)

\* ------------------------------------------------------------ configuration
DEFAULT_WEBHOOK_URL == <<"d">>

\* SHEETS_WEBHOOK_URL, computed once at import from the environment value
SHEETS_WEBHOOK_URL(env) == IF Strip(env) # <<>> THEN Strip(env) ELSE DEFAULT_WEBHOOK_URL

EnvValues == { <<>>, <<" ", "h", " ">> }

\* ---------------------------------------------------------------- messages
NameError == "Ism yoki tashkilot nomi kamida 2 ta belgidan iborat bo'lishi kerak."
PhoneError == "Telefon raqami noto'g'ri. Namuna: +998 90 123 45 67."
NotForwarded == "So'rov qabul qilindi, lekin Google Sheets ga yozilmadi."
ConnectError == "Google Sheets bilan bog'lanishda xatolik yuz berdi."
UnreadableReply == "Google Sheets javobi tushunarsiz."
GenericReplyError == "Google Sheets javobida xatolik bor."
\* f"Google Sheets xatosi: HTTP {response.status_code}."
HttpErrorText(status) ==
  CASE status = 400 -> "Google Sheets xatosi: HTTP 400."
    [] status = 500 -> "Google Sheets xatosi: HTTP 500."
    [] OTHER -> "Google Sheets xatosi: HTTP ???."

\* ------------------------------------------------------------------ inputs
Names == { <<" ", "a", " ">>, <<" ", "A", "l", " ">> }
Phones == { <<"9", "7", "7", "7", "7", "7", "7", "7", "x">>,
            <<" ", "+", "9", " ", "(", "7", ")", "1", "0", "-", "7", "7", " ">> }
Services == { <<" ">> \o Repeat("w", SERVICE_MAX + 1) }
Messages == { <<>> }
Headers == { [xrw |-> "", accept |-> "text/html"],
             [xrw |-> "fetch", accept |-> "text/html"],
             [xrw |-> "", accept |-> "application/json"] }

\* what the remote sink may do with one POST: fail at the network level, or
\* answer with a status and a body (not JSON, a JSON value that is not an
\* object, or a JSON object; "none" marks an absent key)
JsonObject(ok, status, message, error) ==
  [type |-> "object", ok |-> ok, status |-> status, message |-> message, error |-> error]
NonJson == [type |-> "nonjson", ok |-> "none", status |-> "none", message |-> "none", error |-> "none"]
JsonList == [type |-> "list", ok |-> "none", status |-> "none", message |-> "none", error |-> "none"]
Replies ==
  { [kind |-> "exception", status |-> 0, body |-> NonJson],
    [kind |-> "http", status |-> 500, body |-> NonJson],
    [kind |-> "http", status |-> 500, body |-> JsonObject("true", "none", "none", "none")],
    [kind |-> "http", status |-> 200, body |-> NonJson],
    [kind |-> "http", status |-> 200, body |-> JsonList],
    [kind |-> "http", status |-> 200, body |-> JsonObject("true", "none", "none", "none")],
    [kind |-> "http", status |-> 200, body |-> JsonObject("none", "ok", "none", "none")],
    [kind |-> "http", status |-> 200, body |-> JsonObject("false", "none", "quota", "denied")],
    [kind |-> "http", status |-> 200, body |-> JsonObject("none", "error", "", "denied")],
    [kind |-> "http", status |-> 200, body |-> JsonObject("none", "none", "none", "none")] }

\* ------------------------------------------------------------------- state
Reqs == 1..NumReqs

VARIABLES
  env_url,          \* os.environ["SHEETS_WEBHOOK_URL"] ("" when unset)
  data_dir,         \* DATA_DIR exists
  submissions,      \* lines of SUBMISSIONS_PATH
  sheets_failures,  \* lines of SHEETS_FAILURES_PATH
  posts,            \* POSTs the network has been asked to deliver
  pc,               \* position of each request in contact()
  raw,              \* request.form of each request
  json,             \* _wants_json() of each request
  form_data,        \* contact.form_data
  errors,           \* contact.errors
  payload,          \* contact.payload
  sheets,           \* contact.(sheets_ok, sheets_error)
  response,         \* what contact() returned
  cx, cn, cout,     \* clean_text on its own: input, max_len, successive results
  pv, pres          \* is_valid_phone on its own: input, result

vars == << env_url, data_dir, submissions, sheets_failures, posts, pc, raw,
           json, form_data, errors, payload, sheets, response, cx, cn, cout, pv, pres >>

srvVars == << env_url, data_dir, submissions, sheets_failures, posts, pc, raw,
              json, form_data, errors, payload, sheets, response >>
cleanVars == << cx, cn, cout >>
phoneVars == << pv, pres >>

NoForm == [name |-> <<>>, phone |-> <<>>, service |-> <<>>, message |-> <<>>]
NoPayload == [name |-> <<>>, phone |-> <<>>, service |-> <<>>, message |-> <<>>, created_at |-> [req |-> 0, line |-> 0]]
NoSheets == [ok |-> FALSE, error |-> ""]
NoResponse == [status |-> 0, body |-> "none"]

SrvIdle ==
  /\ data_dir = FALSE
  /\ submissions = <<>>
  /\ sheets_failures = <<>>
  /\ posts = {}
  /\ pc = [r \in Reqs |-> "idle"]
  /\ raw = [r \in Reqs |-> NoForm]
  /\ json = [r \in Reqs |-> FALSE]
  /\ form_data = [r \in Reqs |-> NoForm]
  /\ errors = [r \in Reqs |-> <<>>]
  /\ payload = [r \in Reqs |-> NoPayload]
  /\ sheets = [r \in Reqs |-> NoSheets]
  /\ response = [r \in Reqs |-> NoResponse]

CleanIdle == cx = <<>> /\ cn = 0 /\ cout = <<>>
PhoneIdle == pv = <<>> /\ pres = "none"

\* ----------------------------------------------------------------- helpers
\* datetime.now(timezone.utc).isoformat(): the instant at which request r
\* evaluates the call on the given source line, kept symbolic
utc_now(r, line) == [req |-> r, line |-> line]

\* _wants_json()
wants_json(h) == h.xrw = "fetch" \/ h.accept = "application/json"

\* the two `if` statements of contact() written as if / elif
validation_errors_elif(form) ==
  IF Len(form.name) < 2 THEN << NameError >>
  ELSE IF ~is_valid_phone(form.phone) THEN << PhoneError >>
  ELSE <<>>

\* contact(): errors after the two checks
validation_errors(form) ==
  (IF Len(form.name) < 2 THEN << NameError >> ELSE <<>>)
    \o (IF ~is_valid_phone(form.phone) THEN << PhoneError >> ELSE <<>>)

Truthy(v) == v \notin {"none", "", "false"}

\* _send_to_sheets after the POST: what it makes of the reply.  `raised`
\* marks an exception that _send_to_sheets does not catch (data.get on a
\* JSON value that is not an object).
read_reply(reply) ==
  IF reply.kind = "exception" THEN [raised |-> FALSE, ok |-> FALSE, error |-> ConnectError]
  ELSE IF reply.status >= HTTP_ERROR_FLOOR
    THEN [raised |-> FALSE, ok |-> FALSE, error |-> HttpErrorText(reply.status)]
  ELSE IF reply.body.type = "nonjson"
    THEN [raised |-> FALSE, ok |-> FALSE, error |-> UnreadableReply]
  ELSE IF reply.body.type # "object"
    THEN [raised |-> TRUE, ok |-> FALSE, error |-> ""]
  ELSE IF reply.body.ok = "true" \/ reply.body.status = "ok"
    THEN [raised |-> FALSE, ok |-> TRUE, error |-> ""]
  ELSE [raised |-> FALSE, ok |-> FALSE,
        error |-> IF Truthy(reply.body.message) THEN reply.body.message
                  ELSE IF Truthy(reply.body.error) THEN reply.body.error
                  ELSE GenericReplyError]

\* ----------------------------------------------------------------- actions
SrvFrame(r) == UNCHANGED << env_url, cleanVars, phoneVars >>

\* contact(), lines 87-112, with the early return of lines 100-103 left out
contact_validate_no_return(r) ==
  /\ pc[r] = "idle"
  /\ \E n \in Names, p \in Phones, s \in Services, m \in Messages, h \in Headers :
       LET form == [name |-> clean_text(n, NAME_MAX), phone |-> clean_text(p, PHONE_MAX),
                    service |-> clean_text(s, SERVICE_MAX),
                    message |-> clean_text(m, MESSAGE_MAX)]
       IN  /\ raw' = [raw EXCEPT ![r] = [name |-> n, phone |-> p, service |-> s, message |-> m]]
           /\ json' = [json EXCEPT ![r] = wants_json(h)]
           /\ form_data' = [form_data EXCEPT ![r] = form]
           /\ errors' = [errors EXCEPT ![r] = validation_errors(form)]
           /\ data_dir' = TRUE
           /\ payload' = [payload EXCEPT ![r] =
                 [name |-> form.name, phone |-> form.phone, service |-> form.service,
                  message |-> form.message, created_at |-> utc_now(r, 111)]]
           /\ pc' = [pc EXCEPT ![r] = "send"]
  /\ UNCHANGED << submissions, sheets_failures, posts, sheets, response >>
  /\ SrvFrame(r)

\* contact(), lines 87-112: clean the fields and validate; on errors return
\* the rejection, otherwise create the data directory and build the payload
contact_validate(r) ==
  /\ pc[r] = "idle"
  /\ \E n \in Names, p \in Phones, s \in Services, m \in Messages, h \in Headers :
       LET form == [name |-> clean_text(n, NAME_MAX), phone |-> clean_text(p, PHONE_MAX),
                    service |-> clean_text(s, SERVICE_MAX),
                    message |-> clean_text(m, MESSAGE_MAX)]
           errs == validation_errors(form)
       IN  /\ raw' = [raw EXCEPT ![r] = [name |-> n, phone |-> p, service |-> s, message |-> m]]
           /\ json' = [json EXCEPT ![r] = wants_json(h)]
           /\ form_data' = [form_data EXCEPT ![r] = form]
           /\ errors' = [errors EXCEPT ![r] = errs]
           /\ IF errs # <<>>
                THEN /\ response' = [response EXCEPT ![r] =
                            IF wants_json(h) THEN [status |-> 400, body |-> "json_errors"]
                            ELSE [status |-> 200, body |-> "form"]]
                     /\ pc' = [pc EXCEPT ![r] = "done"]
                     /\ UNCHANGED << data_dir, payload >>
                ELSE /\ data_dir' = TRUE
                     /\ payload' = [payload EXCEPT ![r] =
                           [name |-> form.name, phone |-> form.phone,
                            service |-> form.service, message |-> form.message,
                            created_at |-> utc_now(r, 111)]]
                     /\ pc' = [pc EXCEPT ![r] = "send"]
                     /\ UNCHANGED response
  /\ UNCHANGED << submissions, sheets_failures, posts, sheets >>
  /\ SrvFrame(r)

\* _log_sheets_failure(message) with the `if not message` test inverted
log_sheets_failure_inverted(r, message) ==
  IF message = ""
    THEN /\ data_dir' = TRUE
         /\ sheets_failures' = Append(sheets_failures,
               [req |-> r, at |-> utc_now(r, 71), message |-> message])
    ELSE UNCHANGED << data_dir, sheets_failures >>

\* _log_sheets_failure(message), called by request r
log_sheets_failure(r, message) ==
  IF message # ""
    THEN /\ data_dir' = TRUE
         /\ sheets_failures' = Append(sheets_failures,
               [req |-> r, at |-> utc_now(r, 71), message |-> message])
    ELSE UNCHANGED << data_dir, sheets_failures >>

\* contact(), line 113, followed at once by the failure logger of line 118
contact_send_log_first(r) ==
  /\ pc[r] = "send"
  /\ posts' = posts \cup
        { [req |-> r, url |-> SHEETS_WEBHOOK_URL(env_url), payload |-> payload[r]] }
  /\ \E reply \in Replies :
       LET res == read_reply(reply)
       IN  /\ ~res.raised
           /\ sheets' = [sheets EXCEPT ![r] = [ok |-> res.ok, error |-> res.error]]
           /\ IF res.ok THEN UNCHANGED << data_dir, sheets_failures >>
                        ELSE log_sheets_failure(r, res.error)
  /\ pc' = [pc EXCEPT ![r] = "append"]
  /\ UNCHANGED << submissions, raw, json, form_data, errors, payload, response >>
  /\ SrvFrame(r)

\* contact(), line 113: _send_to_sheets(payload).  An exception it does not
\* catch ends the request with Flask's HTTP 500.
contact_send(r) ==
  /\ pc[r] = "send"
  /\ IF SHEETS_WEBHOOK_URL(env_url) = <<>>
       THEN /\ sheets' = [sheets EXCEPT ![r] = [ok |-> TRUE, error |-> ""]]
            /\ pc' = [pc EXCEPT ![r] = "append"]
            /\ UNCHANGED << posts, response >>
       ELSE /\ posts' = posts \cup
                 { [req |-> r, url |-> SHEETS_WEBHOOK_URL(env_url), payload |-> payload[r]] }
            /\ \E reply \in Replies :
                 LET res == read_reply(reply)
                 IN  IF res.raised
                       THEN /\ response' = [response EXCEPT ![r] =
                                   [status |-> 500, body |-> "exception"]]
                            /\ pc' = [pc EXCEPT ![r] = "done"]
                            /\ UNCHANGED sheets
                       ELSE /\ sheets' = [sheets EXCEPT ![r] =
                                   [ok |-> res.ok, error |-> res.error]]
                            /\ pc' = [pc EXCEPT ![r] = "append"]
                            /\ UNCHANGED response
  /\ UNCHANGED << data_dir, submissions, sheets_failures, raw, json, form_data, errors,
                  payload >>
  /\ SrvFrame(r)

\* contact(), lines 114-115: append the payload to the submissions log
contact_append(r) ==
  /\ pc[r] = "append"
  /\ submissions' = Append(submissions, [req |-> r, record |-> payload[r]])
  /\ pc' = [pc EXCEPT ![r] = "respond"]
  /\ UNCHANGED << data_dir, sheets_failures, posts, raw, json, form_data, errors,
                  payload, sheets, response >>
  /\ SrvFrame(r)

\* contact(), lines 117-129: log a forwarding failure, then answer
contact_respond(r) ==
  /\ pc[r] = "respond"
  /\ IF ~sheets[r].ok
       THEN /\ log_sheets_failure(r, sheets[r].error)
            /\ errors' = [errors EXCEPT ![r] = << NotForwarded, sheets[r].error >>]
            /\ response' = [response EXCEPT ![r] =
                  IF json[r] THEN [status |-> 502, body |-> "json_errors"]
                  ELSE [status |-> 200, body |-> "form"]]
       ELSE /\ response' = [response EXCEPT ![r] =
                  IF json[r] THEN [status |-> 200, body |-> "json_ok"]
                  ELSE [status |-> 302, body |-> "redirect_submitted"]]
            /\ UNCHANGED << data_dir, sheets_failures, errors >>
  /\ pc' = [pc EXCEPT ![r] = "done"]
  /\ UNCHANGED << submissions, posts, raw, json, form_data, payload, sheets >>
  /\ SrvFrame(r)

\* ------------------------------------------- the server: POST /contact requests
Init == env_url \in EnvValues /\ SrvIdle /\ CleanIdle /\ PhoneIdle

Next ==
  \/ \E r \in Reqs : contact_validate(r)
  \/ \E r \in Reqs : contact_send(r)
  \/ \E r \in Reqs : contact_append(r)
  \/ \E r \in Reqs : contact_respond(r)

Spec == Init /\ [][Next]_vars

\* ------------------------------------------------- clean_text on its own
CleanChars == {" ", "TAB", "a"}
Texts(alphabet, n) == UNION { [1..k -> alphabet] : k \in 0..n }

InitClean ==
  /\ cx \in Texts(CleanChars, MaxLen)
  /\ cn \in 0..MaxN
  /\ cout = <<>>
  /\ env_url = <<>> /\ SrvIdle /\ PhoneIdle

\* one more application of _clean_text to the last result
clean_again ==
  /\ Len(cout) < 2
  /\ cout' = Append(cout, clean_text(IF cout = <<>> THEN cx ELSE cout[Len(cout)], cn))
  /\ UNCHANGED << cx, cn, srvVars, phoneVars >>

NextClean == clean_again

SpecClean == InitClean /\ [][NextClean]_vars

\* --------------------------------------------- is_valid_phone on its own
PhoneChars == {"+", "7", " ", "-", "x", "NL"}
PhoneCandidates ==
  { pre \o Repeat("7", k) \o suf :
      pre \in Texts(PhoneChars, MaxAffix), suf \in Texts(PhoneChars, MaxAffix),
      k \in (PHONE_MIN_TAIL - 1)..(PHONE_MIN_TAIL + 1) }

InitPhone ==
  /\ pv \in PhoneCandidates
  /\ pres = "none"
  /\ env_url = <<>> /\ SrvIdle /\ CleanIdle

\* bool(pattern.match(value))
phone_check ==
  /\ pres = "none"
  /\ pres' = IF is_valid_phone(pv) THEN "true" ELSE "false"
  /\ UNCHANGED << pv, srvVars, cleanVars >>

NextPhone == phone_check

SpecPhone == InitPhone /\ [][NextPhone]_vars

\* ================================================================== claims
Range(seq) == { seq[i] : i \in DOMAIN seq }
LinesOf(log, r) == { i \in DOMAIN log : log[i].req = r }
PostsOf(r) == { p \in posts : p.req = r }

\* request r passed validation / was rejected by it
Validated(r) == pc[r] # "idle" /\ Len(form_data[r].name) >= 2 /\ is_valid_phone(form_data[r].phone)
Rejected(r) == pc[r] = "done" /\ ~Validated(r)
\* the forwarder returned (False, message) to request r
FailureReported(r) == pc[r] # "idle" /\ ~sheets[r].ok /\ sheets[r].error # ""
\* request r ended in the success outcome
Succeeded(r) ==
  /\ pc[r] = "done"
  /\ response[r] \in { [status |-> 302, body |-> "redirect_submitted"],
                       [status |-> 200, body |-> "json_ok"] }
CleanedRecord(r) ==
  [name |-> clean_text(raw[r].name, NAME_MAX), phone |-> clean_text(raw[r].phone, PHONE_MAX),
   service |-> clean_text(raw[r].service, SERVICE_MAX),
   message |-> clean_text(raw[r].message, MESSAGE_MAX), created_at |-> utc_now(r, 111)]

\* C1: every finished request that passed validation has exactly one line
\* in the submissions log, holding its cleaned fields and created_at,
\* whatever the remote forwarder did.
C1_OneLinePerValidatedRequest ==
  \A r \in Reqs :
    (pc[r] = "done" /\ Validated(r)) =>
      /\ Cardinality(LinesOf(submissions, r)) = 1
      /\ \A i \in LinesOf(submissions, r) : submissions[i].record = CleanedRecord(r)

C3_RejectionHasNoSideEffect ==
  /\ \A r \in Reqs :
       Rejected(r) =>
         /\ LinesOf(submissions, r) = {}
         /\ LinesOf(sheets_failures, r) = {}
         /\ PostsOf(r) = {}
         /\ errors[r] # <<>>
         /\ response[r].status \in {400, 200}
  /\ (\A r \in Reqs : pc[r] = "idle" \/ Rejected(r)) =>
       (~data_dir /\ submissions = <<>> /\ sheets_failures = <<>> /\ posts = {})

C3_Witness ==
  \E r, q \in Reqs :
    /\ Rejected(r) /\ response[r].status = 400
    /\ Rejected(q) /\ response[q] = [status |-> 200, body |-> "form"]

\* C4: with the webhook variable empty or unset no POST is ever attempted
\* and every forwarding counts as successful.
C4_EmptyConfigNeverPosts ==
  Strip(env_url) = <<>> =>
    /\ posts = {}
    /\ \A r \in Reqs : pc[r] \in {"append", "respond", "done"} /\ Validated(r) => sheets[r].ok

\* C5: a validated request whose POST failed at the network level still
\* ends in the success outcome, and nothing is written to the failures log
\* for it.
C5_UnreachableSinkStillSucceeds ==
  \A r \in Reqs :
    (pc[r] = "done" /\ sheets[r].error = ConnectError) =>
      /\ Succeeded(r)
      /\ LinesOf(sheets_failures, r) = {}

\* C6: as long as errors holds the validation result, it contains the name
\* message exactly when the cleaned name is shorter than 2, the phone
\* message exactly when the cleaned phone fails the validator, nothing
\* else, each at most once, and the name message first.
ValidationResultVisible(r) == pc[r] # "idle" /\ ~FailureReported(r)
C6_BothChecksInOrder ==
  \A r \in Reqs :
    ValidationResultVisible(r) =>
      /\ form_data[r].name = clean_text(raw[r].name, NAME_MAX)
      /\ form_data[r].phone = clean_text(raw[r].phone, PHONE_MAX)
      /\ (NameError \in Range(errors[r])) <=> (Len(form_data[r].name) < 2)
      /\ (PhoneError \in Range(errors[r])) <=> ~is_valid_phone(form_data[r].phone)
      /\ Range(errors[r]) \subseteq {NameError, PhoneError}
      /\ Len(errors[r]) = Cardinality(Range(errors[r]))
      /\ Len(errors[r]) = 2 => errors[r][1] = NameError

C6_Witness ==
  \E r, q \in Reqs :
    /\ pc[r] = "done" /\ errors[r] = << NameError, PhoneError >>
    /\ pc[q] = "done" /\ errors[q] = << NameError >>
    /\ is_valid_phone(form_data[q].phone)

\* the whole of s has the phone shape: an optional '+', one digit, then at
\* least seven characters of the class, and nothing else
PhoneShape(s) ==
  LET t == IF s # <<>> /\ Head(s) = "+" THEN Tail(s) ELSE s
  IN  /\ Len(t) >= 1 + PHONE_MIN_TAIL
      /\ IsDigit(t[1])
      /\ \A i \in 2..Len(t) : IsPhoneClass(t[i])
HasValidPrefix(s) == \E k \in 1..Len(s) : PhoneShape(SubSeq(s, 1, k))

\* C7 (as stated): every value with a valid-looking prefix is accepted,
\* whatever follows the prefix.
C7_PrefixIsEnough == (pres # "none" /\ HasValidPrefix(pv)) => pres = "true"

\* C7 (amended): the validator anchors both ends: a value is accepted
\* exactly when the whole of it has the phone shape, so a valid-looking
\* prefix followed by a character outside the class is rejected.
C7_WholeStringMustMatch ==
  pres # "none" =>
    /\ (pres = "true") <=> PhoneShape(pv)
    /\ (pv # <<>> /\ ~IsPhoneClass(pv[Len(pv)])) => pres = "false"

C7_Witness ==
  /\ pres = "false"
  /\ HasValidPrefix(pv)
  /\ pv[Len(pv)] = "x"
  /\ PhoneShape(SubSeq(pv, 1, Len(pv) - 1))

\* C8: cleaning a cleaned value with the same maximum length changes nothing.
C8_CleanIdempotent == Len(cout) = 2 => cout[2] = cout[1]

\* C9: every finished request that passed validation has exactly one line
\* in the submissions log, every line is the complete record of the request
\* that wrote it, and the log has as many lines as there are requests past
\* their local append.
PastAppend(r) ==
  \/ pc[r] = "respond"
  \/ pc[r] = "done" /\ Validated(r) /\ response[r].body # "exception"
C9_OneCompleteLineEach ==
  /\ \A r \in Reqs : (pc[r] = "done" /\ Validated(r)) => Cardinality(LinesOf(submissions, r)) = 1
  /\ \A i \in DOMAIN submissions : submissions[i].record = payload[submissions[i].req]
  /\ Len(submissions) = Cardinality({ r \in Reqs : PastAppend(r) })

\* C10: every line of the failures log belongs to a request whose forwarder
\* reported that failure and whose record is already in the submissions
\* log, and a request writes it at most once.
C10_FailureLoggedAfterAppend ==
  /\ \A i \in DOMAIN sheets_failures :
       LET r == sheets_failures[i].req
       IN  /\ FailureReported(r)
           /\ sheets_failures[i].message = sheets[r].error
           /\ LinesOf(submissions, r) # {}
  /\ \A r \in Reqs : Cardinality(LinesOf(sheets_failures, r)) <= 1

C10_Witness ==
  \E r, q \in Reqs :
    /\ LinesOf(sheets_failures, r) # {} /\ sheets[r].error = ConnectError
    /\ pc[q] = "append" /\ FailureReported(q)
    /\ Len(submissions) = 1

====
